---- MODULE Spec2Model ----
(***************************************************************************)
(* A model of pytube/request.py: the request executor, the chunked         *)
(* retrying stream reader, the sequential segment reader and size prober,  *)
(* and the memoised DNS-over-HTTPS resolver.                               *)
(*                                                                         *)
(* Text (URLs, response bodies) is a sequence of one-character strings, so *)
(* that prefix tests, searches and number parsing are computed.  A byte of *)
(* a served resource is named by its offset in the resource: a chunk is    *)
(* the interval of offsets it carries, which makes a missing, duplicated   *)
(* or reordered byte visible.                                              *)
(***************************************************************************)
EXTENDS Integers, Sequences, FiniteSets, TLC

\* ------------------------------------------------------------------ bounds

\* Largest max_retries a caller passes.
MaxRetriesBound == 2
\* Most _execute_request calls followed in one run.
MaxRequests == 5
\* Largest segment number the server holds a body for.
MaxSegments == 3
\* Most failures (failed requests, broken or mislabelled responses, failed
\* reads) the network puts into one run of stream, and into one run of any
\* other operation.
MaxFaults == 3
MaxFaultsSeq == 1
MaxFaultsAll == 1
\* Most domains other than TrackedDomain that are looked up.
MaxDomains == 130
\* Most calls of get_dns_ip open at once in one thread.
MaxNesting == 2
\* The longest answer list the resolver sends to _read_ip_from_dns_answer.
MaxAnswers == 2

\* --------------------------------------------------------------- constants

default_range_size == 9437184
chunk_read_size == 32768
\* functools.lru_cache's default maxsize, taken by the bare decorator.
lru_maxsize == 128

\* ------------------------------------------------------------------- text

Digits == <<"0","1","2","3","4","5","6","7","8","9">>
UpperLetters == <<"A","B","C","D","E","F","G","H","I","J","K","L","M",
                  "N","O","P","Q","R","S","T","U","V","W","X","Y","Z">>
LowerLetters == <<"a","b","c","d","e","f","g","h","i","j","k","l","m",
                  "n","o","p","q","r","s","t","u","v","w","x","y","z">>

IsDigit(c) == \E d \in 1..10 : Digits[d] = c
DigitVal(c) == (CHOOSE d \in 1..10 : Digits[d] = c) - 1
IsUpper(c) == \E k \in 1..26 : UpperLetters[k] = c
IsAlpha(c) == IsUpper(c) \/ \E k \in 1..26 : LowerLetters[k] = c

\* str.lower(), one character.
LowerChar(c) ==
    IF IsUpper(c) THEN LowerLetters[CHOOSE k \in 1..26 : UpperLetters[k] = c] ELSE c
\* str.lower()
Lower(s) == [i \in 1..Len(s) |-> LowerChar(s[i])]

\* pat occurs in s at index i (1-based).
MatchesAt(s, pat, i) ==
    /\ i >= 1
    /\ i + Len(pat) - 1 <= Len(s)
    /\ \A j \in 1..Len(pat) : s[i + j - 1] = pat[j]
\* str.startswith
StartsWith(s, pat) == MatchesAt(s, pat, 1)
\* str.find from index `from`, 1-based; 0 when absent.
FindFrom(s, pat, from) ==
    IF \E i \in from..Len(s) : MatchesAt(s, pat, i)
    THEN CHOOSE i \in from..Len(s) :
            MatchesAt(s, pat, i) /\ \A j \in from..(i - 1) : ~MatchesAt(s, pat, j)
    ELSE 0
Find(s, pat) == FindFrom(s, pat, 1)
\* `pat in s`
Contains(s, pat) == Find(s, pat) > 0
\* s[i:], 1-based i.
Tail_(s, i) == SubSeq(s, i, Len(s))

\* The index of the last digit of the run of digits that starts at i
\* (i - 1 when s[i] is no digit): the greedy \d+ of a regular expression.
RECURSIVE DigitRunEnd(_, _)
DigitRunEnd(s, i) ==
    IF i <= Len(s) /\ IsDigit(s[i]) THEN DigitRunEnd(s, i + 1) ELSE i - 1

\* int() of a string of digits.
RECURSIVE ParseInt(_)
ParseInt(ds) ==
    IF Len(ds) = 0 THEN 0
    ELSE 10 * ParseInt(SubSeq(ds, 1, Len(ds) - 1)) + DigitVal(ds[Len(ds)])

\* str() of a natural number.
RECURSIVE IntToChars(_)
IntToChars(n) ==
    IF n < 10 THEN <<Digits[n + 1]>>
    ELSE IntToChars(n \div 10) \o <<Digits[(n % 10) + 1]>>

Min(a, b) == IF a <= b THEN a ELSE b

\* ------------------------------------------------------------------- URLs

HttpPrefix == <<"h","t","t","p">>
SchemeSep == <<":","/","/">>
SqKey == <<"s","q","=">>
RangeKey == <<"&","r","a","n","g","e","=">>
RangeEnd == <<"-","9","9","9","9","9","9","9","9","9","9","9">>
MediaFamily == <<"g","o","o","g","l","e","v","i","d","e","o",".","c","o","m">>
FrontHost == <<"w","w","w",".","g","o","o","g","l","e",".","c","o","m">>

UrlPlain == <<"h","t","t","p",":","/","/","e",".","c","/","v">>
UrlUpper == <<"H","T","T","P","S",":","/","/","e",".","c","/","v">>
UrlMedia == <<"h","t","t","p","s",":","/","/","r",".","g","o","o","g","l","e",
              "v","i","d","e","o",".","c","o","m","/","v">>
UrlBad == <<"n","o","t","-","a","-","u","r","l">>
UrlFtp == <<"f","t","p",":","/","/","e",".","c","/","v">>

\* The smallest index >= from of a character of s that is in cs; Len(s) + 1
\* when there is none.
FirstOf(s, cs, from) ==
    IF \E i \in from..Len(s) : s[i] \in cs
    THEN CHOOSE i \in from..Len(s) :
            s[i] \in cs /\ \A j \in from..(i - 1) : s[j] \notin cs
    ELSE Len(s) + 1

IsSchemeChar(c) == IsAlpha(c) \/ IsDigit(c) \/ c \in {"+", "-", "."}

\* urllib.parse.urlsplit, for URLs without a fragment or surrounding blanks:
\* the scheme (lower-cased), the netloc, the path and the query.
\* The path and the query are parted at the first '?', found at q (0: none).
SplitQueryAt(scheme, netloc, rest, q) ==
    [scheme |-> scheme,
     netloc |-> netloc,
     path |-> IF q = 0 THEN rest ELSE SubSeq(rest, 1, q - 1),
     query |-> IF q = 0 THEN <<>> ELSE Tail_(rest, q + 1)]
\* A netloc after '//' ends before the delimiter found at delim.
SplitNetlocAt(scheme, rest, delim) ==
    SplitQueryAt(scheme, SubSeq(rest, 3, delim - 1), Tail_(rest, delim),
                 Find(Tail_(rest, delim), <<"?">>))
\* What follows the scheme has a netloc when it starts with '//'.
SplitNetloc(scheme, rest) ==
    IF StartsWith(rest, <<"/","/">>)
    THEN SplitNetlocAt(scheme, rest, FirstOf(rest, {"/", "?", "#"}, 3))
    ELSE SplitQueryAt(scheme, <<>>, rest, Find(rest, <<"?">>))
\* A scheme is a letter and scheme characters before the first ':', found
\* at colon (0: none).
SplitSchemeAt(u, colon) ==
    IF /\ colon > 1
       /\ IsAlpha(u[1])
       /\ \A j \in 1..(colon - 1) : IsSchemeChar(u[j])
    THEN SplitNetloc(Lower(SubSeq(u, 1, colon - 1)), Tail_(u, colon + 1))
    ELSE SplitNetloc(<<>>, u)
urlsplit(u) == SplitSchemeAt(u, Find(u, <<":">>))

\* The URL seq_stream and seq_filesize request for segment n:
\* '%s://%s/%s?' % (scheme, netloc, path) + urlencode(querys), querys['sq'] = n.
\* The query of the caller's URL is carried over as it stands.
JoinSeqUrl(sp, n) ==
    sp.scheme \o SchemeSep \o sp.netloc \o <<"/">> \o sp.path \o <<"?">>
    \o (IF sp.query = <<>> THEN <<>> ELSE sp.query \o <<"&">>)
    \o SqKey \o IntToChars(n)
SeqUrl(u, n) == JoinSeqUrl(urlsplit(u), n)

\* A range that starts one byte late.
RangedUrlLate(u, start) ==
    u \o (IF start = 0 THEN <<>> ELSE RangeKey \o IntToChars(start + 1) \o RangeEnd)
\* The URL one attempt of stream requests.
RangedUrl(u, start) ==
    u \o (IF start = 0 THEN <<>> ELSE RangeKey \o IntToChars(start) \o RangeEnd)

\* What the server reads from a URL: the segment number (-1: none) and the
\* first byte asked for.
\* The number after the key of `klen` characters found at i, or `none`.
NumberAfter(u, i, klen, none) ==
    IF i = 0 THEN none
    ELSE ParseInt(SubSeq(u, i + klen, DigitRunEnd(u, i + klen)))
SqOf(u) == NumberAfter(u, Find(u, SqKey), 3, -1)
RangeStartOf(u) == NumberAfter(u, Find(u, RangeKey), 7, 0)

\* helpers.make_fronted_url: the URL to connect to and the Host header to
\* send (<<>>: none).  A media-family URL is dialled at the fronting host
\* under its own scheme; any other URL is used as it is.
FrontedAt(u, netloc, at) ==
    <<SubSeq(u, 1, at - 1) \o FrontHost \o Tail_(u, at + Len(netloc)), netloc>>
Fronted(u, netloc) == FrontedAt(u, netloc, Find(u, netloc))
make_fronted_url(u) ==
    IF Contains(u, MediaFamily) THEN Fronted(u, urlsplit(u).netloc) ELSE <<u, <<>> >>

\* No test of the URL at all.
UrlAcceptedAlways(front_url) == TRUE
\* Line 105: front_url.lower().startswith("http")
UrlAccepted(front_url) == StartsWith(Lower(front_url), HttpPrefix)

\* ----------------------------------------------------------------- server

\* Body lengths of the resource a plain stream() reads.
Lens == {0, 1, chunk_read_size, 2 * chunk_read_size + 1}
\* Offsets a caller resumes from, for a resource of n bytes.
StartsFor(n) == {k \in {0, 1, chunk_read_size + 1, n} : k <= n}
\* Numbers of body bytes after which a connection may break off.
TruncCuts == {0, 1}

CRLF == <<"\r","\n">>
SegmentCountPat == <<"S","e","g","m","e","n","t","-","C","o","u","n","t",":"," ">>
Marker(n) == SegmentCountPat \o IntToChars(n)

\* Bodies of segment 0: one marker, a marker among other lines, no marker,
\* a count of 0, two markers.
Body0s ==
    { Marker(1),
      Marker(2),
      <<"x">> \o CRLF \o Marker(3) \o CRLF \o <<"y","z">>,
      <<"x","y">>,
      Marker(0),
      Marker(1) \o CRLF \o Marker(2) }

\* Body lengths of the segments 1..MaxSegments.
SegLenChoices ==
    { [k \in 1..MaxSegments |-> 7],
      [k \in 1..MaxSegments |-> IF k = 2 THEN chunk_read_size + 1 ELSE k - 1] }

VARIABLES
    op,              \* the public operation called
    fault_budget,    \* network: most failures it puts into this run
    faults,          \* network: failures so far
    url,             \* its url argument
    max_retries,     \* its max_retries argument
    plen,            \* server: length of the resource of a plain URL
    body0,           \* server: body of segment 0
    seglen,          \* server: body length of each segment 1..MaxSegments
    pc,              \* where the operation stands
    caller,          \* who iterates stream(): the user or a line of seq_stream
    run,             \* 1: the first call; 2: the caller's resuming call
    stream_url,      \* stream's url
    start_byte_pos,  \* stream's start_byte_pos
    file_size,       \* stream's local
    downloaded,      \* stream's local
    tries,           \* stream's local
    response,        \* the open response being read
    segment_data,    \* seq_stream's local
    segment_count,   \* seq_stream's and seq_filesize's local
    seq_num,         \* seq_stream's and seq_filesize's local
    total_filesize,  \* seq_filesize's local
    chunks,          \* every chunk yielded to the user so far, in order
    prev_chunks,     \* the chunks of the first call, once the caller resumed
    calls,           \* every call of _execute_request made so far, in order
    result,          \* "running", "returned" or the exception raised
    retval,          \* the value returned (sizes)
    last_url,        \* the module's last_url, by thread
    dns_cache,       \* get_dns_ip's lru_cache: entries, least recently used first
    dns_last,        \* the latest call of get_dns_ip that overlapped no other, and how it ended
    dns_prev,        \* the address get_dns_ip last returned for TrackedDomain
    dns_since,       \* distinct other domains looked up since TrackedDomain was
    dns_next,        \* the next domain never looked up so far
    dns_trips,       \* round trips that resolved TrackedDomain
    stack,           \* by thread: its open calls of the transport, innermost last
    req_url,         \* by thread: the url of its latest _execute_request
    own_url,         \* by thread: the URL it recorded latest itself
    hook_last,       \* the latest call of _patched_getaddrinfo that returned
    walk,            \* _read_ip_from_dns_answer's locals and position
    race             \* by thread: its open call of get_dns_ip; what the calls stored

vars == <<op, fault_budget, faults, url, max_retries, plen, body0, seglen, pc, caller, run, stream_url,
          start_byte_pos, file_size, downloaded, tries, response, segment_data,
          segment_count, seq_num, total_filesize, chunks, prev_chunks, calls,
          result, retval, last_url, dns_cache, dns_last, dns_prev, dns_since,
          dns_next, dns_trips, stack, req_url, own_url, hook_last, walk, race>>

inputs == <<op, fault_budget, url, max_retries, plen, body0, seglen>>
hook_vars == <<stack, req_url, own_url, hook_last>>
dns_vars == <<dns_cache, dns_last, dns_prev, dns_since, dns_next, dns_trips, hook_vars>>
seq_locals == <<segment_data, segment_count, seq_num, total_filesize>>
stream_locals == <<stream_url, start_byte_pos, file_size, downloaded, tries, response>>

\* The thread the modelled caller runs on: threading.get_ident().
MainThread == 1
Threads == {1, 2}

NoUrl == <<>>
NoResponse == [sq |-> -1, pos |-> 0, end |-> 0, clkind |-> "none", clval |-> 0]
\* segment_count before any assignment (seq_stream assigns it only on a match).
Unbound == -1

\* The length of the resource a URL names.
ResLenOf(sq) ==
    IF sq = -1 THEN plen
    ELSE IF sq = 0 THEN Len(body0)
    ELSE IF sq \in 1..MaxSegments THEN seglen[sq]
    ELSE 0
ResLen(u) == ResLenOf(SqOf(u))

\* One dictionary for every thread.
RecordUrlShared(lu, t, u) == [x \in DOMAIN lu |-> u]
\* Lines 61 and 94: last_url[threading.get_ident()] = url
RecordUrl(lu, t, u) == [lu EXCEPT ![t] = u]

\* ------------------------------------------------------- _execute_request

\* The answer of a network without failure: the whole body from the requested
\* offset under its length.
Perfect == [kind |-> "ok", cut |-> -1, cl |-> "right"]
IsFault(o) == o # Perfect /\ o.kind # "ValueError_InvalidURL"

\* What urlopen can do with a GET or POST: fail, or answer with the body
\* from the requested offset: whole (cut = -1) under a Content-Length that is
\* right, absent or not a number, or announced rightly and broken off after
\* `cut` bytes.
\* A HEAD response has no body; its Content-Length may also be another number.
OutcomesFor(method, rest) ==
    IF faults >= fault_budget THEN {Perfect}
    ELSE
    {[kind |-> k, cut |-> -1, cl |-> "none"] :
        k \in {"URLError_timeout", "URLError", "HTTPError", "IncompleteRead"}}
    \cup
    (IF method = "HEAD"
     THEN {[kind |-> "ok", cut |-> -1, cl |-> h] :
              h \in {"right", "absent", "malformed", "other"}}
     ELSE {[kind |-> "ok", cut |-> -1, cl |-> h] :
              h \in {"right", "absent", "malformed"}}
          \cup
          {[kind |-> "ok", cut |-> c, cl |-> "right"] :
              c \in {t \in TruncCuts : t < rest}})
\* The bytes a response to front_url has to deliver, of a resource of len.
RestOf(front_url, len) == len - Min(RangeStartOf(front_url), len)
UrlopenOutcomes(front_url, method) ==
    OutcomesFor(method, RestOf(front_url, ResLen(front_url)))

\* The ways one call of _execute_request(u, method) can end: ValueError
\* before any urlopen, or whatever urlopen does.
OutcomesAt(front_url, method) ==
    IF UrlAccepted(front_url)
    THEN UrlopenOutcomes(front_url, method)
    ELSE {[kind |-> "ValueError_InvalidURL", cut |-> -1, cl |-> "none"]}
ExecOutcomes(u, method) == OutcomesAt(make_fronted_url(u)[1], method)

\* The response urlopen hands back for outcome o of a request of front_url.
ResponseAt(sq, o, len, from) ==
    [sq |-> sq,
     pos |-> from,
     end |-> IF o.cut = -1 THEN len ELSE from + o.cut,
     clkind |-> o.cl,
     clval |-> IF o.cl = "right" THEN len - from
               ELSE IF o.cl = "other" THEN len - from + 1 ELSE 0]
ResponseFrom(front_url, sq, o, len) ==
    ResponseAt(sq, o, len, Min(RangeStartOf(front_url), len))
ResponseOf(front_url, o) ==
    ResponseFrom(front_url, SqOf(front_url), o, ResLenOf(SqOf(front_url)))

\* _execute_request(u, method) ending with outcome o: last_url is recorded
\* first, the call is made only for an accepted URL.  The entry of `calls`
\* keeps the argument, the URL dialled, how many chunks had been yielded and
\* what the network did.
Dialled(u, fronted, method, o) ==
    /\ Len(calls) < MaxRequests
    /\ o \in OutcomesAt(fronted[1], method)
    /\ faults' = IF IsFault(o) THEN faults + 1 ELSE faults
    /\ last_url' = RecordUrl(last_url, MainThread, u)
    /\ calls' = Append(calls, [arg |-> u,
                               url |-> fronted[1],
                               host |-> fronted[2],
                               at |-> Len(chunks),
                               method |-> method,
                               kind |-> o.kind, cut |-> o.cut, cl |-> o.cl,
                               urlopen |-> (o.kind # "ValueError_InvalidURL"),
                               run |-> run])
execute_request(u, method, o) == Dialled(u, make_fronted_url(u), method, o)

Raise(e) == /\ result' = e
            /\ pc' = "done"
Return == /\ result' = "returned"
          /\ pc' = "done"

\* ----------------------------------------------------------------- stream

\* stream(u, max_retries, start) is called and first iterated: lines 218-219.
StreamBegin(u, start) ==
    /\ stream_url' = u
    /\ start_byte_pos' = start
    /\ file_size' = default_range_size
    /\ downloaded' = 0
    /\ tries' = 0
    /\ response' = NoResponse
    /\ pc' = "stream_loop"

\* A retry loop that allows one attempt more.
RetriesExhaustedLate(t, r) == t > 1 + r
\* Line 227: the retry budget is used up.
RetriesExhausted(t, r) == t >= 1 + r

\* A retry loop that swallows every URLError.
RetriedAnyUrlError(kind) ==
    kind \in {"URLError_timeout", "URLError", "HTTPError", "IncompleteRead"}
\* Lines 237-246: the failures of _execute_request the retry loop swallows.
Retried(kind) == kind \in {"URLError_timeout", "IncompleteRead"}

\* Lines 252-258: what the first response does to file_size and downloaded.
\* response.info()["Content-Length"] is None for an absent header and
\* int(None) raises TypeError, which the except clause does not name; a
\* value that is no number raises ValueError, which it logs and drops.
SizeProbe(fs, dl, start, resp) ==
    IF fs # default_range_size THEN [file_size |-> fs, downloaded |-> dl, raised |-> "no"]
    ELSE IF resp.clkind = "right"
         THEN [file_size |-> resp.clval, downloaded |-> start, raised |-> "no"]
    ELSE IF resp.clkind = "absent"
         THEN [file_size |-> fs, downloaded |-> dl, raised |-> "TypeError"]
    ELSE [file_size |-> fs, downloaded |-> dl, raised |-> "no"]

\* A read that takes a final short chunk for the end of the body.
ReadSizeWholeChunks(resp) ==
    IF resp.end - resp.pos >= chunk_read_size THEN chunk_read_size ELSE 0
\* Line 260: how many bytes response.read(32768) returns.
ReadSize(resp) == Min(chunk_read_size, resp.end - resp.pos)

\* How one response.read(32768) can end: with data (or b'' at the end of the
\* body), or with an exception of the socket or of the chunked decoding.
ReadOutcomes ==
    IF faults >= fault_budget THEN {"data"}
    ELSE {"data", "socket.timeout", "IncompleteRead"}

\* The bytes of segment 0 a chunk carries.
ChunkText(c) == SubSeq(body0, c.lo + 1, c.hi)

CallStream ==
    /\ pc = "call"
    /\ op = "stream"
    /\ \E k \in StartsFor(plen) : StreamBegin(url, k)
    /\ caller' = "user"
    /\ UNCHANGED <<walk, race, inputs, faults, run, seq_locals, chunks, prev_chunks, calls, result,
                   retval, last_url, dns_vars>>

\* Line 220, the loop is entered; line 222.
StreamLoopEnter ==
    /\ pc = "stream_loop"
    /\ downloaded < file_size
    /\ tries' = 0
    /\ pc' = "stream_try"
    /\ UNCHANGED <<walk, race, inputs, faults, caller, run, stream_url, start_byte_pos, file_size,
                   downloaded, response, seq_locals, chunks, prev_chunks, calls,
                   result, retval, last_url, dns_vars>>

\* Line 220, the loop is left; line 265.  The generator is exhausted and its
\* caller goes on: the user, line 189 or line 204 of seq_stream.
StreamReturn ==
    /\ pc = "stream_loop"
    /\ ~(downloaded < file_size)
    /\ IF caller = "user" THEN Return /\ UNCHANGED seq_num
       ELSE IF caller = "seq_stream:184"
            THEN pc' = "seq_parse" /\ UNCHANGED <<result, seq_num>>
       ELSE /\ seq_num' = seq_num + 1
            /\ pc' = "seq_loop"
            /\ UNCHANGED result
    /\ UNCHANGED <<walk, race, inputs, faults, caller, run, stream_locals, segment_data, segment_count,
                   total_filesize, chunks, prev_chunks, calls, retval, last_url,
                   dns_vars>>

\* Lines 227-228.
StreamMaxRetries ==
    /\ pc = "stream_try"
    /\ RetriesExhausted(tries, max_retries)
    /\ Raise("MaxRetriesExceeded")
    /\ UNCHANGED <<walk, race, inputs, faults, caller, run, stream_locals, seq_locals, chunks,
                   prev_chunks, calls, retval, last_url, dns_vars>>

\* Lines 231-258: one attempt.  A swallowed failure counts a try; any other
\* exception leaves stream; a response ends the retry loop and, while
\* file_size is the sentinel, is asked for its Content-Length.
StreamRequest ==
    /\ pc = "stream_try"
    /\ ~RetriesExhausted(tries, max_retries)
    /\ \E o \in ExecOutcomes(RangedUrl(stream_url, start_byte_pos), "GET") :
         /\ execute_request(RangedUrl(stream_url, start_byte_pos), "GET", o)
         /\ IF o.kind = "ok"
            THEN LET resp == ResponseOf(
                                make_fronted_url(RangedUrl(stream_url, start_byte_pos))[1], o)
                     probe == SizeProbe(file_size, downloaded, start_byte_pos, resp)
                 IN  /\ response' = resp
                     /\ file_size' = probe.file_size
                     /\ downloaded' = probe.downloaded
                     /\ IF probe.raised = "no"
                        THEN pc' = "stream_read" /\ UNCHANGED result
                        ELSE Raise(probe.raised)
                     /\ UNCHANGED tries
            ELSE IF Retried(o.kind)
            THEN /\ tries' = tries + 1
                 /\ UNCHANGED <<pc, result, response, file_size, downloaded>>
            ELSE /\ Raise(o.kind)
                 /\ UNCHANGED <<tries, response, file_size, downloaded>>
    /\ UNCHANGED <<walk, race, inputs, caller, run, stream_url, start_byte_pos, seq_locals,
                   chunks, prev_chunks, retval, dns_vars>>

\* Lines 260-264: one response.read(32768); a chunk is yielded, and kept by
\* seq_stream's line 186 when it reads segment 0; an empty read ends the
\* body; a failing read is outside every try block.
StreamRead ==
    /\ pc = "stream_read"
    /\ \E r \in ReadOutcomes :
         IF r # "data"
         THEN /\ Raise(r)
              /\ faults' = faults + 1
              /\ UNCHANGED <<response, downloaded, chunks, segment_data>>
         ELSE IF ReadSize(response) = 0
         THEN /\ pc' = "stream_loop"
              /\ UNCHANGED <<result, response, downloaded, chunks, segment_data, faults>>
         ELSE LET c == [sq |-> response.sq, lo |-> response.pos,
                        hi |-> response.pos + ReadSize(response)]
              IN  /\ downloaded' = downloaded + ReadSize(response)
                  /\ response' = [response EXCEPT !.pos = c.hi]
                  /\ chunks' = Append(chunks, c)
                  /\ segment_data' = IF caller = "seq_stream:184"
                                     THEN segment_data \o ChunkText(c)
                                     ELSE segment_data
                  /\ UNCHANGED <<pc, result, faults>>
    /\ UNCHANGED <<walk, race, inputs, caller, run, stream_url, start_byte_pos, file_size, tries,
                   segment_count, seq_num, total_filesize, prev_chunks, calls,
                   retval, last_url, dns_vars>>

\* The caller of a stream(url) that returned calls stream(url, start_byte_pos=k)
\* to fetch the rest again from byte k.
Resume ==
    /\ pc = "done"
    /\ op = "stream"
    /\ run = 1
    /\ result = "returned"
    /\ start_byte_pos = 0
    /\ \E k \in StartsFor(plen) : StreamBegin(url, k)
    /\ run' = 2
    /\ result' = "running"
    /\ prev_chunks' = chunks
    /\ chunks' = <<>>
    /\ UNCHANGED <<walk, race, inputs, faults, caller, seq_locals, calls, retval, last_url, dns_vars>>

\* ------------------------------------------------- seq_stream, seq_filesize

\* bytes.split(b'\r\n')
RECURSIVE SplitLines(_)
SplitLines(s) ==
    LET i == Find(s, CRLF)
    IN  IF i = 0 THEN <<s>>
        ELSE <<SubSeq(s, 1, i - 1)>> \o SplitLines(Tail_(s, i + 2))

\* The pattern b'Segment-Count: (\d+)' matches in line at index i.
MarkerAt(line, i) ==
    /\ MatchesAt(line, SegmentCountPat, i)
    /\ i + Len(SegmentCountPat) <= Len(line)
    /\ IsDigit(line[i + Len(SegmentCountPat)])
\* int(match.group(1)) of the leftmost match of the pattern in line; -1 when
\* the pattern matches nowhere.
SearchSegmentCount(line) ==
    IF \E i \in 1..Len(line) : MarkerAt(line, i)
    THEN LET i == CHOOSE i \in 1..Len(line) :
                     MarkerAt(line, i) /\ \A j \in 1..(i - 1) : ~MarkerAt(line, j)
             d == i + Len(SegmentCountPat)
         IN  ParseInt(SubSeq(line, d, DigitRunEnd(line, d)))
    ELSE -1
\* helpers.regex_search(pattern, line, group=1): the group of the leftmost
\* match; -1 stands for RegexMatchError.
regex_search(line) == SearchSegmentCount(line)

\* Lines 191-194 and 307-313: every line is searched and each match
\* overwrites segment_count, which starts as `unset`.
RECURSIVE ScanLines(_, _, _)
ScanLines(lines, k, unset) ==
    IF k = 0 THEN unset
    ELSE IF SearchSegmentCount(lines[k]) # -1 THEN SearchSegmentCount(lines[k])
    ELSE ScanLines(lines, k - 1, unset)
\* seq_stream, lines 189-194.
StreamSegmentCount(data) == ScanLines(SplitLines(data), Len(SplitLines(data)), Unbound)
\* seq_filesize, lines 304-313.
RECURSIVE ScanLinesRegex(_, _)
ScanLinesRegex(lines, k) ==
    IF k = 0 THEN 0
    ELSE IF regex_search(lines[k]) # -1 THEN regex_search(lines[k])
    ELSE ScanLinesRegex(lines, k - 1)
FilesizeSegmentCount(data) == ScanLinesRegex(SplitLines(data), Len(SplitLines(data)))

\* A loop that stops one segment early.
SegmentsLeftExclusive(n, count) == n < count
\* Line 198: seq_stream has a segment left to stream.
SegmentsLeft(n, count) == n <= count

\* A loop that stops one segment early.
SizesLeftExclusive(n, count) == n < count
\* Line 320: seq_filesize has a segment left to ask the size of.
SizesLeft(n, count) == n <= count

\* Lines 173-184: seq_stream is first iterated and iterates stream(sq=0).
CallSeqStream ==
    /\ pc = "call"
    /\ op = "seq_stream"
    /\ StreamBegin(SeqUrl(url, 0), 0)
    /\ caller' = "seq_stream:184"
    /\ segment_data' = <<>>
    /\ UNCHANGED <<walk, race, inputs, faults, run, segment_count, seq_num, total_filesize, chunks,
                   prev_chunks, calls, result, retval, last_url, dns_vars>>

\* Lines 189-197.
SeqStreamParse ==
    /\ pc = "seq_parse"
    /\ segment_count' = StreamSegmentCount(segment_data)
    /\ seq_num' = 1
    /\ pc' = "seq_loop"
    /\ UNCHANGED <<walk, race, inputs, faults, caller, run, stream_locals, segment_data, total_filesize,
                   chunks, prev_chunks, calls, result, retval, last_url, dns_vars>>

\* Line 198 with segment_count never assigned.
SeqStreamUnbound ==
    /\ pc = "seq_loop"
    /\ segment_count = Unbound
    /\ Raise("UnboundLocalError")
    /\ UNCHANGED <<walk, race, inputs, faults, caller, run, stream_locals, seq_locals, chunks,
                   prev_chunks, calls, retval, last_url, dns_vars>>

\* Lines 198-203: the next segment is streamed.
SeqStreamSegment ==
    /\ pc = "seq_loop"
    /\ segment_count # Unbound
    /\ SegmentsLeft(seq_num, segment_count)
    /\ StreamBegin(SeqUrl(url, seq_num), 0)
    /\ caller' = "seq_stream:203"
    /\ UNCHANGED <<walk, race, inputs, faults, run, seq_locals, chunks, prev_chunks, calls, result,
                   retval, last_url, dns_vars>>

\* Lines 198 and 205.
SeqStreamReturn ==
    /\ pc = "seq_loop"
    /\ segment_count # Unbound
    /\ ~SegmentsLeft(seq_num, segment_count)
    /\ Return
    /\ UNCHANGED <<walk, race, inputs, faults, caller, run, stream_locals, seq_locals, chunks,
                   prev_chunks, calls, retval, last_url, dns_vars>>

\* response.read() of a whole body: IncompleteRead when the body breaks off
\* before a declared Content-Length.
ReadAllFails(resp, o) == o.cut # -1 /\ resp.clkind = "right"

\* Lines 285-317: segment 0 is fetched and read whole, its length counted
\* and its lines scanned.
SeqFilesizeStart ==
    /\ pc = "call"
    /\ op = "seq_filesize"
    /\ \E o \in ExecOutcomes(SeqUrl(url, 0), "GET") :
         /\ execute_request(SeqUrl(url, 0), "GET", o)
         /\ IF o.kind # "ok"
            THEN /\ Raise(o.kind)
                 /\ UNCHANGED <<total_filesize, segment_count, seq_num>>
            ELSE LET resp == ResponseOf(make_fronted_url(SeqUrl(url, 0))[1], o)
                     response_value == SubSeq(body0, resp.pos + 1, resp.end)
                 IN  IF ReadAllFails(resp, o)
                     THEN /\ Raise("IncompleteRead")
                          /\ UNCHANGED <<total_filesize, segment_count, seq_num>>
                     ELSE /\ total_filesize' = Len(response_value)
                          /\ segment_count' = FilesizeSegmentCount(response_value)
                          /\ seq_num' = 1
                          /\ IF FilesizeSegmentCount(response_value) = 0
                             THEN Raise("RegexMatchError")
                             ELSE pc' = "sfs_loop" /\ UNCHANGED result
    /\ UNCHANGED <<walk, race, inputs, caller, run, stream_locals, segment_data, chunks,
                   prev_chunks, retval, dns_vars>>

\* What int(head(url)['content-length']) gives for outcome o of the HEAD
\* request: lines 339-340 and 275, 325.
HeadContentLength(front_url, o) ==
    IF o.kind # "ok" THEN [raised |-> o.kind, val |-> 0]
    ELSE IF o.cl = "absent" THEN [raised |-> "KeyError", val |-> 0]
    ELSE IF o.cl = "malformed" THEN [raised |-> "ValueError_int", val |-> 0]
    ELSE [raised |-> "no", val |-> ResponseOf(front_url, o).clval]

\* Lines 320-326: one HEAD request.
SeqFilesizeHead ==
    /\ pc = "sfs_loop"
    /\ SizesLeft(seq_num, segment_count)
    /\ \E o \in ExecOutcomes(SeqUrl(url, seq_num), "HEAD") :
         /\ execute_request(SeqUrl(url, seq_num), "HEAD", o)
         /\ LET h == HeadContentLength(make_fronted_url(SeqUrl(url, seq_num))[1], o)
            IN  IF h.raised # "no"
                THEN /\ Raise(h.raised)
                     /\ UNCHANGED <<total_filesize, seq_num>>
                ELSE /\ total_filesize' = total_filesize + h.val
                     /\ seq_num' = seq_num + 1
                     /\ UNCHANGED <<pc, result>>
    /\ UNCHANGED <<walk, race, inputs, caller, run, stream_locals, segment_data, segment_count,
                   chunks, prev_chunks, retval, dns_vars>>

\* Lines 320 and 327.
SeqFilesizeReturn ==
    /\ pc = "sfs_loop"
    /\ ~SizesLeft(seq_num, segment_count)
    /\ retval' = total_filesize
    /\ Return
    /\ UNCHANGED <<walk, race, inputs, faults, caller, run, stream_locals, seq_locals, chunks,
                   prev_chunks, calls, last_url, dns_vars>>

\* ---------------------------------------------------- get, post, head, filesize

\* Lines 128-129 and 154-160: the request, then response.read().decode().
CallGetOrPost ==
    /\ pc = "call"
    /\ op \in {"get", "post"}
    /\ \E o \in ExecOutcomes(url, IF op = "get" THEN "GET" ELSE "POST") :
         /\ execute_request(url, IF op = "get" THEN "GET" ELSE "POST", o)
         /\ IF o.kind # "ok" THEN Raise(o.kind)
            ELSE IF ReadAllFails(ResponseOf(make_fronted_url(url)[1], o), o)
            THEN Raise("IncompleteRead")
            ELSE Return
    /\ UNCHANGED <<walk, race, inputs, caller, run, stream_locals, seq_locals, chunks,
                   prev_chunks, retval, dns_vars>>

\* Lines 339-340.
CallHead ==
    /\ pc = "call"
    /\ op = "head"
    /\ \E o \in ExecOutcomes(url, "HEAD") :
         /\ execute_request(url, "HEAD", o)
         /\ IF o.kind # "ok" THEN Raise(o.kind) ELSE Return
    /\ UNCHANGED <<walk, race, inputs, caller, run, stream_locals, seq_locals, chunks,
                   prev_chunks, retval, dns_vars>>

\* Line 275.
CallFilesize ==
    /\ pc = "call"
    /\ op = "filesize"
    /\ \E o \in ExecOutcomes(url, "HEAD") :
         /\ execute_request(url, "HEAD", o)
         /\ LET h == HeadContentLength(make_fronted_url(url)[1], o)
            IN  IF h.raised # "no"
                THEN Raise(h.raised) /\ UNCHANGED retval
                ELSE Return /\ retval' = h.val
    /\ UNCHANGED <<walk, race, inputs, caller, run, stream_locals, seq_locals, chunks,
                   prev_chunks, dns_vars>>

\* -------------------------------------------------------------- get_dns_ip

\* Domains are numbered; domain TrackedDomain is the one looked up again and
\* again, the others are looked up once each, in order.  Names that are no
\* domain (aliases, addresses) are numbers above every domain.
TrackedDomain == 0
NoAddr == -1
AliasOf(d) == 1000 + d
AddrA == 2001
AddrB == 2002

ResolvePrefix == <<"h","t","t","p","s",":","/","/","w","w","w",".","g","o","o","g",
                   "l","e",".","c","o","m","/","r","e","s","o","l","v","e","?",
                   "n","a","m","e","=">>
\* The number that stands for the fronting host when it is looked up.
FrontDomain == AliasOf(TrackedDomain) - 1
DomainName(d) ==
    IF d = FrontDomain THEN FrontHost
    ELSE <<"r">> \o IntToChars(d) \o <<".">> \o MediaFamily
\* Line 52.
ResolveUrl(d) == ResolvePrefix \o DomainName(d)

\* The JSON answers the resolver may give for domain d.  For TrackedDomain:
\* one address at once, another through an alias, or the first through an
\* alias listed before the entry that names it.  Every other domain has one
\* answer.
DnsAnswers(d) ==
    IF d = TrackedDomain
    THEN { [Question |-> d, Answer |-> <<[name |-> d, data |-> AddrA]>>],
           [Question |-> d, Answer |-> <<[name |-> d, data |-> AliasOf(d)],
                                         [name |-> AliasOf(d), data |-> AddrB]>>],
           [Question |-> d, Answer |-> <<[name |-> AliasOf(d), data |-> AddrA],
                                         [name |-> d, data |-> AliasOf(d)]>>] }
    ELSE { [Question |-> d, Answer |-> <<[name |-> d, data |-> AliasOf(d)],
                                         [name |-> AliasOf(d), data |-> AddrB]>>] }

\* Lines 33-36: one pass of the for loop over the answers from index k, with
\* the working name ip; the name after the pass and whether any entry matched.
RECURSIVE ScanAnswers(_, _, _, _)
ScanAnswers(answers, k, ip, found) ==
    IF k > Len(answers) THEN [ip |-> ip, search |-> found]
    ELSE IF ip = answers[k].name
    THEN ScanAnswers(answers, k + 1, answers[k].data, TRUE)
    ELSE ScanAnswers(answers, k + 1, ip, found)
\* Lines 31-38: passes are repeated until one matches nothing.
RECURSIVE FollowAnswers(_, _)
FollowAnswers(answers, ip) ==
    LET pass == ScanAnswers(answers, 1, ip, FALSE)
    IN  IF pass.search THEN FollowAnswers(answers, pass.ip) ELSE pass.ip
\* _read_ip_from_dns_answer
read_ip_from_dns_answer(json_data) ==
    FollowAnswers(json_data.Answer, json_data.Question)

\* functools.lru_cache: the index of the entry of key d; 0 when it has none.
LruIndex(cache, d) ==
    IF \E i \in 1..Len(cache) : cache[i].domain = d
    THEN CHOOSE i \in 1..Len(cache) : cache[i].domain = d
    ELSE 0
\* A hit moves the entry to the most recently used end.
LruHit(cache, i) ==
    SubSeq(cache, 1, i - 1) \o SubSeq(cache, i + 1, Len(cache)) \o <<cache[i]>>
\* A resolver that keeps no result.
LruStoreNothing(cache, e) == cache
\* A miss stores the result; a full cache drops its least recently used entry.
LruStore(cache, e) ==
    IF Len(cache) >= lru_maxsize THEN Tail(cache) \o <<e>> ELSE Append(cache, e)
\* A store that replaces the entry another call stored meanwhile.
LruStoreAfterCallReplaces(cache, e) ==
    LruStore(SelectSeq(cache, LAMBDA c : c.domain # e.domain), e)
\* The store after the call of the function: when another call stored the
\* key meanwhile, the cache is left as it is.
LruStoreAfterCall(cache, e) ==
    IF LruIndex(cache, e.domain) # 0 THEN cache ELSE LruStore(cache, e)

NoDnsCall == [domain |-> -1, addr |-> NoAddr, trip |-> FALSE, raised |-> FALSE,
              known |-> FALSE, others |-> 0, prev |-> NoAddr]

\* The history kept about the calls: the address last returned for
\* TrackedDomain, and how many other domains were looked up since.
DnsHistory(d, addr, ok) ==
    /\ dns_prev' = IF d = TrackedDomain /\ ok THEN addr ELSE dns_prev
    /\ dns_since' = IF ~ok THEN dns_since
                    ELSE IF d = TrackedDomain THEN 0 ELSE dns_since + 1
    /\ dns_next' = IF d = dns_next /\ ok THEN dns_next + 1 ELSE dns_next

\* get_dns_ip(d), answered by the cache.
DnsCacheHit(d) ==
    /\ LruIndex(dns_cache, d) # 0
    /\ dns_cache' = LruHit(dns_cache, LruIndex(dns_cache, d))
    /\ dns_last' = [domain |-> d, addr |-> dns_cache[LruIndex(dns_cache, d)].addr,
                    trip |-> FALSE, raised |-> FALSE,
                    known |-> (d = TrackedDomain /\ dns_prev # NoAddr),
                    others |-> dns_since, prev |-> dns_prev]
    /\ DnsHistory(d, dns_cache[LruIndex(dns_cache, d)].addr, TRUE)
    /\ UNCHANGED <<dns_trips, last_url>>

\* get_dns_ip(d), lines 52-63: the URL is recorded, the resolver is asked and
\* its answer is read and stored.
DnsRoundTrip(d) ==
    /\ LruIndex(dns_cache, d) = 0
    /\ last_url' = RecordUrl(last_url, MainThread, ResolveUrl(d))
    /\ \E json_data \in DnsAnswers(d) :
         /\ dns_cache' = LruStore(dns_cache, [domain |-> d,
                                              addr |-> read_ip_from_dns_answer(json_data)])
         /\ dns_last' = [domain |-> d, addr |-> read_ip_from_dns_answer(json_data),
                         trip |-> TRUE, raised |-> FALSE,
                         known |-> (d = TrackedDomain /\ dns_prev # NoAddr),
                         others |-> dns_since, prev |-> dns_prev]
         /\ DnsHistory(d, read_ip_from_dns_answer(json_data), TRUE)
    /\ dns_trips' = IF d = TrackedDomain THEN dns_trips + 1 ELSE dns_trips

\* get_dns_ip(d), lines 52-62: urlopen raises; nothing is stored.
DnsRoundTripFails(d) ==
    /\ LruIndex(dns_cache, d) = 0
    /\ last_url' = RecordUrl(last_url, MainThread, ResolveUrl(d))
    /\ dns_last' = [domain |-> d, addr |-> NoAddr, trip |-> TRUE, raised |-> TRUE,
                    known |-> (d = TrackedDomain /\ dns_prev # NoAddr),
                    others |-> dns_since, prev |-> dns_prev]
    /\ DnsHistory(d, NoAddr, FALSE)
    /\ UNCHANGED <<dns_cache, dns_trips>>

\* The domains the main thread calls get_dns_ip for: TrackedDomain, or the
\* next domain never looked up.
DnsArguments == {d \in {TrackedDomain, dns_next} : d <= MaxDomains}
transport_vars == <<inputs, faults, pc, caller, run, stream_locals, seq_locals,
                    chunks, prev_chunks, calls, result, retval>>

GetDnsIpCached ==
    (\E d \in DnsArguments : DnsCacheHit(d)) /\ UNCHANGED <<walk, race, transport_vars, hook_vars>>
GetDnsIpResolved ==
    (\E d \in DnsArguments : DnsRoundTrip(d)) /\ UNCHANGED <<walk, race, transport_vars, hook_vars>>
GetDnsIpRaised ==
    (\E d \in DnsArguments : DnsRoundTripFails(d)) /\ UNCHANGED <<walk, race, transport_vars, hook_vars>>

\* ----------------------------------------------- _read_ip_from_dns_answer

\* The loop of lines 27-38, statement by statement.  An answer list holds
\* entries whose name and data are the question's name, an alias or an
\* address, in any order: chains, entries that name themselves and cycles.
AnswerValues == {TrackedDomain, AliasOf(TrackedDomain), AddrA}
AnswerEntries == [name : AnswerValues, data : AnswerValues]
AnswerLists == UNION {[1..n -> AnswerEntries] : n \in 0..MaxAnswers}

\* Lines 28-29: ip is the question's name and search is True.  starts holds
\* the values of ip the passes so far began with, and again tells whether a
\* pass began with one of them.
WalkBegin(json_data) ==
    [pc |-> "while", answers |-> json_data.Answer, ip |-> json_data.Question,
     search |-> TRUE, k |-> 0, starts |-> {}, again |-> FALSE]

\* Lines 31-32 and 38: the test of the while loop; a pass begins or ip is
\* returned.
WalkWhile ==
    /\ walk.pc = "while"
    /\ walk' = IF walk.search
               THEN [walk EXCEPT !.pc = "for", !.search = FALSE, !.k = 1,
                                 !.starts = @ \cup {walk.ip},
                                 !.again = (walk.ip \in walk.starts)]
               ELSE [walk EXCEPT !.pc = "returned"]
    /\ UNCHANGED <<race, transport_vars, last_url, dns_vars>>

\* Lines 33-36: one entry of the for loop; ip follows the entry it names.
WalkFor ==
    /\ walk.pc = "for"
    /\ walk' = IF walk.k > Len(walk.answers)
               THEN [walk EXCEPT !.pc = "while"]
               ELSE IF walk.ip = walk.answers[walk.k].name
               THEN [walk EXCEPT !.ip = walk.answers[walk.k].data,
                                 !.search = TRUE, !.k = @ + 1]
               ELSE [walk EXCEPT !.k = @ + 1]
    /\ UNCHANGED <<race, transport_vars, last_url, dns_vars>>

\* ---------------------------------------------------- _patched_getaddrinfo

NoHookCall == [thread |-> 0, host |-> <<>>, url |-> NoUrl, rule |-> "none",
               addr |-> <<>>, port |-> "none", lookup |-> FALSE, nested |-> FALSE]

\* Line 73: "/resolve"
ResolvePath == <<"/","r","e","s","o","l","v","e">>
\* Line 23: _dns_resolver[1], and the port of lines 76 and 80.
FrontAddr == <<"2","1","6",".","2","3","9",".","3","6",".","3","6">>
FrontPort == "443"
\* A host outside the media family and the fronting provider.
OtherHost == <<"e",".","c">>
\* What _orig_getaddrinfo gives for a host, and the port asked for.
PlatformAddr(host) == <<"platform">> \o host
PlatformPort == "asked"
\* The address get_dns_ip returned, as the hook passes it on.
DnsAddr(a) == <<"doh", a>>

\* A URL of the media family, of domain d.
MediaUrl(d) == <<"h","t","t","p","s",":","/","/">> \o DomainName(d) \o <<"/","v">>
\* helpers.split_redirector_url(url)[0]: the redirector host of the URL.
split_redirector_url(u) == <<urlsplit(u).netloc>>
\* The number of the domain a host name names.
HostDomain(name) ==
    IF StartsWith(name, <<"r">>) /\ Contains(name, MediaFamily)
    THEN ParseInt(SubSeq(name, 2, DigitRunEnd(name, 2)))
    ELSE FrontDomain

\* The media rule tried first.
ClassifyMediaFirst(u) ==
    IF u = NoUrl THEN "pass"
    ELSE IF Contains(u, MediaFamily) THEN "media"
    ELSE IF Contains(u, ResolvePath) THEN "probe"
    ELSE "pass"
\* Lines 70-77: the rule the hook applies for the URL it read.
Classify(u) ==
    IF u = NoUrl THEN "pass"
    ELSE IF Contains(u, ResolvePath) THEN "probe"
    ELSE IF Contains(u, MediaFamily) THEN "media"
    ELSE "pass"

\* The open calls of a thread: _execute_request inside urlopen ("request"),
\* the hook waiting for get_dns_ip ("hook"), get_dns_ip inside urlopen
\* ("dns", probed once its connection has resolved its host).
Frame(fn, u, host, d, probed) ==
    [fn |-> fn, url |-> u, host |-> host, domain |-> d, probed |-> probed]
HasTop(t, fn) == stack[t] # <<>> /\ stack[t][Len(stack[t])].fn = fn
TopOf(t) == stack[t][Len(stack[t])]
DnsDepth(t) == Cardinality({i \in 1..Len(stack[t]) : stack[t][i].fn = "dns"})
\* The connection of the innermost get_dns_ip has resolved its host.
Probed(st) ==
    IF st # <<>> /\ st[Len(st)].fn = "dns"
    THEN [st EXCEPT ![Len(st)].probed = TRUE]
    ELSE st
\* The hosts thread t may ask getaddrinfo for: the host its open connection
\* dials, or any host by code outside the transport.
HostsFor(t) ==
    IF stack[t] = <<>> THEN {OtherHost}
    ELSE IF HasTop(t, "request") THEN {TopOf(t).host, OtherHost}
    ELSE IF HasTop(t, "dns") /\ ~TopOf(t).probed THEN {FrontHost}
    ELSE {}
\* The URLs the threads request.
ThreadUrls == {UrlPlain, MediaUrl(TrackedDomain)}

\* Lines 94-111: thread t calls _execute_request(u) and is inside urlopen.
ThreadRequest(t, u) ==
    /\ stack[t] = <<>>
    /\ last_url' = RecordUrl(last_url, t, u)
    /\ req_url' = [req_url EXCEPT ![t] = u]
    /\ own_url' = [own_url EXCEPT ![t] = u]
    /\ stack' = [stack EXCEPT ![t] =
                    <<Frame("request", u, urlsplit(make_fronted_url(u)[1]).netloc,
                            -1, FALSE)>>]
    /\ UNCHANGED <<walk, race, transport_vars, dns_cache, dns_last, dns_prev, dns_since, dns_next,
                   dns_trips, hook_last>>

\* Lines 111-112: urlopen returns or raises.
ThreadRequestEnds(t) ==
    /\ HasTop(t, "request")
    /\ stack' = [stack EXCEPT ![t] = <<>>]
    /\ UNCHANGED <<walk, race, transport_vars, last_url, dns_cache, dns_last, dns_prev, dns_since,
                   dns_next, dns_trips, req_url, own_url, hook_last>>

\* The domain get_dns_ip is asked for under the media rule: line 79.
LookupDomain(u) == HostDomain(split_redirector_url(u)[1])

\* What a call of the hook by thread t for `host` returned.
HookReturned(t, host, u, rule, addr, port, lookup) ==
    [thread |-> t, host |-> host, url |-> u, rule |-> rule, addr |-> addr,
     port |-> port, lookup |-> lookup, nested |-> HasTop(t, "dns")]

\* Lines 67-76 and 82: the hook finds no URL, or a URL that is neither of
\* the media family nor a probe, and returns the platform's result; or finds
\* a probe and returns the fronting address.
GetaddrinfoDirect(t, host) ==
    /\ host \in HostsFor(t)
    /\ Classify(last_url[t]) \in {"pass", "probe"}
    /\ hook_last' = IF Classify(last_url[t]) = "probe"
                    THEN HookReturned(t, host, last_url[t], "probe", FrontAddr,
                                      FrontPort, FALSE)
                    ELSE HookReturned(t, host, last_url[t], "pass", PlatformAddr(host),
                                      PlatformPort, FALSE)
    /\ stack' = [stack EXCEPT ![t] = Probed(stack[t])]
    /\ UNCHANGED <<walk, race, transport_vars, last_url, dns_cache, dns_last, dns_prev, dns_since,
                   dns_next, dns_trips, req_url, own_url>>

\* Lines 77-80 with get_dns_ip answered by its cache.
GetaddrinfoCached(t, host) ==
    /\ host \in HostsFor(t)
    /\ Classify(last_url[t]) = "media"
    /\ LruIndex(dns_cache, LookupDomain(last_url[t])) # 0
    /\ dns_cache' = LruHit(dns_cache, LruIndex(dns_cache, LookupDomain(last_url[t])))
    /\ hook_last' = HookReturned(t, host, last_url[t], "media",
                        DnsAddr(dns_cache[LruIndex(dns_cache,
                                                   LookupDomain(last_url[t]))].addr),
                        FrontPort, FALSE)
    /\ stack' = [stack EXCEPT ![t] = Probed(stack[t])]
    /\ UNCHANGED <<walk, race, transport_vars, last_url, dns_last, dns_prev, dns_since, dns_next,
                   dns_trips, req_url, own_url>>

\* Lines 77-79 and 52-62: the cache has no entry, get_dns_ip records the
\* URL of its probe and is inside urlopen.
GetaddrinfoLookup(t, host) ==
    /\ host \in HostsFor(t)
    /\ Classify(last_url[t]) = "media"
    /\ LruIndex(dns_cache, LookupDomain(last_url[t])) = 0
    /\ DnsDepth(t) < MaxNesting
    /\ stack' = [stack EXCEPT ![t] =
                    stack[t] \o <<Frame("hook", last_url[t], host, -1, FALSE),
                                  Frame("dns", ResolveUrl(LookupDomain(last_url[t])),
                                        FrontHost, LookupDomain(last_url[t]), FALSE)>>]
    /\ last_url' = RecordUrl(last_url, t, ResolveUrl(LookupDomain(last_url[t])))
    /\ own_url' = [own_url EXCEPT ![t] = ResolveUrl(LookupDomain(last_url[t]))]
    /\ UNCHANGED <<walk, race, transport_vars, dns_cache, dns_last, dns_prev, dns_since, dns_next,
                   dns_trips, req_url, hook_last>>

\* The frames of st without the innermost hook and get_dns_ip.
Unwound(st) == Probed(SubSeq(st, 1, Len(st) - 2))
\* The hook frame under the innermost get_dns_ip.
WaitingHook(st) == st[Len(st) - 1]

\* Lines 62-63 and 80-82: the resolver answers, get_dns_ip stores and
\* returns the address read, the waiting hook returns it.
LookupAnswered(t) ==
    /\ HasTop(t, "dns")
    /\ TopOf(t).probed
    /\ \E json_data \in DnsAnswers(TopOf(t).domain) :
         /\ dns_cache' = LruStoreAfterCall(dns_cache,
                              [domain |-> TopOf(t).domain,
                               addr |-> read_ip_from_dns_answer(json_data)])
         /\ hook_last' = [thread |-> t,
                          host |-> WaitingHook(stack[t]).host,
                          url |-> WaitingHook(stack[t]).url,
                          rule |-> "media",
                          addr |-> DnsAddr(read_ip_from_dns_answer(json_data)),
                          port |-> FrontPort,
                          lookup |-> TRUE,
                          nested |-> DnsDepth(t) > 1]
    /\ stack' = [stack EXCEPT ![t] = Unwound(stack[t])]
    /\ UNCHANGED <<walk, race, transport_vars, last_url, dns_last, dns_prev, dns_since, dns_next,
                   dns_trips, req_url, own_url>>

\* Line 62 raises: the exception leaves get_dns_ip and every hook under it.
LookupFails(t) ==
    /\ HasTop(t, "dns")
    /\ stack' = [stack EXCEPT ![t] = SelectSeq(stack[t], LAMBDA f : f.fn = "request")]
    /\ UNCHANGED <<walk, race, transport_vars, last_url, dns_cache, dns_last, dns_prev, dns_since,
                   dns_next, dns_trips, req_url, own_url, hook_last>>

\* ------------------------------------------- get_dns_ip, called by two threads

\* lru_cache looks the key up, calls the function without holding its lock
\* and stores the result afterwards, so the calls of two threads for
\* TrackedDomain overlap.  race.flying[t] is the open call of thread t, with
\* what held when it began: known, an address was stored for the domain
\* before; recent, fewer than lru_maxsize other domains were looked up since
\* the entry was stored or read.  race.first is the first address ever
\* stored, race.stored the one stored latest, race.last the call of a racing
\* thread that returned latest, with the address stored latest when it
\* returned.  dns_last, dns_prev and dns_trips stay the
\* history of the calls that do not overlap.

\* No call of get_dns_ip is open and none has stored an address.
NoFlight == [open |-> FALSE, known |-> FALSE, recent |-> FALSE]
NoRace == [flying |-> [t \in Threads |-> NoFlight],
           first |-> NoAddr, stored |-> NoAddr,
           last |-> [addr |-> NoAddr, stored |-> NoAddr, trip |-> FALSE,
                     known |-> FALSE, recent |-> FALSE]]

\* Lines 41-61: thread t misses the cache, enters the function and records
\* the URL.
RaceStart(t) ==
    /\ ~race.flying[t].open
    /\ LruIndex(dns_cache, TrackedDomain) = 0
    /\ race' = [race EXCEPT !.flying[t] = [open |-> TRUE,
                                           known |-> (race.first # NoAddr),
                                           recent |-> (dns_since < lru_maxsize)]]
    /\ last_url' = RecordUrl(last_url, t, ResolveUrl(TrackedDomain))
    /\ UNCHANGED <<walk, transport_vars, dns_vars>>

\* Lines 62-63 and the store of lru_cache: the answer of thread t arrives.
RaceReturn(t, addr) ==
    /\ dns_cache' = LruStoreAfterCall(dns_cache, [domain |-> TrackedDomain, addr |-> addr])
    /\ race' = [race EXCEPT
                  !.flying[t] = NoFlight,
                  !.first = IF @ = NoAddr THEN addr ELSE @,
                  !.stored = IF LruIndex(dns_cache, TrackedDomain) = 0 THEN addr ELSE @,
                  !.last = [addr |-> addr, trip |-> TRUE,
                            stored |-> IF LruIndex(dns_cache, TrackedDomain) = 0
                                       THEN addr ELSE race.stored,
                            known |-> race.flying[t].known,
                            recent |-> race.flying[t].recent]]
    /\ dns_since' = IF LruIndex(dns_cache, TrackedDomain) = 0 THEN 0 ELSE dns_since
RaceFinish(t) ==
    /\ race.flying[t].open
    /\ \E json_data \in DnsAnswers(TrackedDomain) :
         RaceReturn(t, read_ip_from_dns_answer(json_data))
    /\ UNCHANGED <<walk, transport_vars, hook_vars, last_url, dns_last, dns_prev,
                   dns_next, dns_trips>>

\* Line 62: urlopen raises in thread t; nothing is stored.
RaceFails(t) ==
    /\ race.flying[t].open
    /\ race' = [race EXCEPT !.flying[t] = NoFlight]
    /\ UNCHANGED <<walk, transport_vars, last_url, dns_vars>>

\* A thread with no open call finds TrackedDomain in the cache.
RaceHit(t) ==
    /\ ~race.flying[t].open
    /\ LruIndex(dns_cache, TrackedDomain) # 0
    /\ dns_cache' = LruHit(dns_cache, LruIndex(dns_cache, TrackedDomain))
    /\ dns_since' = 0
    /\ race' = [race EXCEPT
                  !.last = [addr |-> dns_cache[LruIndex(dns_cache, TrackedDomain)].addr,
                            stored |-> race.stored,
                            trip |-> FALSE, known |-> (race.first # NoAddr),
                            recent |-> (dns_since < lru_maxsize)]]
    /\ UNCHANGED <<walk, transport_vars, hook_vars, last_url, dns_last, dns_prev,
                   dns_next, dns_trips>>

\* The main thread, with no open call, looks up the next other domain.
RaceOther ==
    /\ ~race.flying[MainThread].open
    /\ dns_next <= MaxDomains
    /\ DnsRoundTrip(dns_next)
    /\ UNCHANGED <<walk, race, transport_vars, hook_vars>>

\* ------------------------------------------------------------ specification

NoSegments == [k \in 1..MaxSegments |-> 0]

\* No call of _read_ip_from_dns_answer is open.
NoWalk == [pc |-> "idle", answers |-> <<>>, ip |-> NoAddr, search |-> FALSE,
           k |-> 0, starts |-> {}, again |-> FALSE]

InitState ==
    /\ race = NoRace
    /\ pc = "call"
    /\ caller = "user"
    /\ run = 1
    /\ stream_url = NoUrl
    /\ start_byte_pos = 0
    /\ file_size = default_range_size
    /\ downloaded = 0
    /\ tries = 0
    /\ response = NoResponse
    /\ segment_data = <<>>
    /\ segment_count = Unbound
    /\ seq_num = 0
    /\ total_filesize = 0
    /\ chunks = <<>>
    /\ prev_chunks = <<>>
    /\ calls = <<>>
    /\ result = "running"
    /\ retval = 0
    /\ last_url = [t \in Threads |-> NoUrl]
    /\ stack = [t \in Threads |-> <<>>]
    /\ req_url = [t \in Threads |-> NoUrl]
    /\ own_url = [t \in Threads |-> NoUrl]
    /\ hook_last = NoHookCall
    /\ dns_cache = <<>>
    /\ dns_last = NoDnsCall
    /\ dns_prev = NoAddr
    /\ dns_since = 0
    /\ dns_next = 1
    /\ dns_trips = 0
    /\ faults = 0

InitLocals == InitState /\ walk = NoWalk

\* A call of stream; the network puts at most b failures into the run.
InitStream(b) ==
    /\ op = "stream"
    /\ fault_budget = b
    /\ url \in {UrlPlain, UrlBad}
    /\ max_retries \in 0..MaxRetriesBound
    /\ plen \in Lens
    /\ body0 = <<>>
    /\ seglen = NoSegments

\* A call of seq_stream or seq_filesize.
InitSeq(b) ==
    /\ op \in {"seq_stream", "seq_filesize"}
    /\ fault_budget = b
    /\ url \in {UrlPlain, UrlBad, UrlFtp}
    /\ max_retries \in {0, 1}
    /\ plen = 0
    /\ body0 \in Body0s
    /\ seglen \in SegLenChoices

\* A call of get, post, head or filesize.
InitSimple(b) ==
    /\ op \in {"get", "post", "head", "filesize"}
    /\ fault_budget = b
    /\ url \in {UrlPlain, UrlUpper, UrlMedia, UrlBad, UrlFtp}
    /\ max_retries = 0
    /\ plen \in {0, 1}
    /\ body0 = <<>>
    /\ seglen = NoSegments

StreamSteps ==
    \/ StreamLoopEnter
    \/ StreamReturn
    \/ StreamMaxRetries
    \/ StreamRequest
    \/ StreamRead

SeqSteps ==
    \/ CallSeqStream
    \/ SeqStreamParse
    \/ SeqStreamUnbound
    \/ SeqStreamSegment
    \/ SeqStreamReturn
    \/ SeqFilesizeStart
    \/ SeqFilesizeHead
    \/ SeqFilesizeReturn

\* Every public operation of the module, one call per run.
Init == InitLocals /\ (InitStream(MaxFaultsAll) \/ InitSeq(MaxFaultsAll)
                        \/ InitSimple(MaxFaultsAll))
Next ==
    \/ CallStream
    \/ StreamSteps
    \/ SeqSteps
    \/ CallGetOrPost
    \/ CallHead
    \/ CallFilesize
Spec == Init /\ [][Next]_vars

\* A call of stream for a resource as long as the sentinel file size, without
\* retries and with at most one failure of the network.
InitStreamSentinel ==
    /\ op = "stream"
    /\ fault_budget = Min(1, MaxFaults)
    /\ url = UrlPlain
    /\ max_retries = 0
    /\ plen = default_range_size
    /\ body0 = <<>>
    /\ seglen = NoSegments

\* stream alone, under a network that fails more often.
InitStreamOnly == InitLocals /\ (InitStream(MaxFaults) \/ InitStreamSentinel)
NextStream ==
    \/ CallStream
    \/ StreamSteps
SpecStream == InitStreamOnly /\ [][NextStream]_vars

\* stream(url), then stream(url, start_byte_pos=k) by the same caller.
InitResume == InitLocals /\ InitStream(MaxFaultsAll)
NextResume ==
    \/ CallStream
    \/ StreamSteps
    \/ Resume
SpecResume == InitResume /\ [][NextResume]_vars

\* seq_stream and seq_filesize alone.
InitSeqOnly == InitLocals /\ InitSeq(MaxFaultsSeq)
NextSeq ==
    \/ StreamSteps
    \/ SeqSteps
SpecSeq == InitSeqOnly /\ [][NextSeq]_vars

\* Calls of get_dns_ip alone.
InitDns ==
    /\ InitLocals
    /\ op = "get_dns_ip"
    /\ fault_budget = 0
    /\ url = NoUrl
    /\ max_retries = 0
    /\ plen = 0
    /\ body0 = <<>>
    /\ seglen = NoSegments
NextDns ==
    \/ GetDnsIpCached
    \/ GetDnsIpResolved
    \/ GetDnsIpRaised
SpecDns == InitDns /\ [][NextDns]_vars

\* Two threads using the transport, and resolving hosts, at once.
InitHook ==
    /\ InitLocals
    /\ op = "threads"
    /\ fault_budget = 0
    /\ url = NoUrl
    /\ max_retries = 0
    /\ plen = 0
    /\ body0 = <<>>
    /\ seglen = NoSegments
NextHook ==
    \/ \E t \in Threads, u \in ThreadUrls : ThreadRequest(t, u)
    \/ \E t \in Threads : ThreadRequestEnds(t)
    \/ \E t \in Threads, host \in {OtherHost, FrontHost} : GetaddrinfoDirect(t, host)
    \/ \E t \in Threads, host \in {OtherHost, FrontHost} : GetaddrinfoCached(t, host)
    \/ \E t \in Threads, host \in {OtherHost, FrontHost} : GetaddrinfoLookup(t, host)
    \/ \E t \in Threads : LookupAnswered(t)
    \/ \E t \in Threads : LookupFails(t)
SpecHook == InitHook /\ [][NextHook]_vars

\* _read_ip_from_dns_answer alone, called with every answer list for the
\* question TrackedDomain.
InitAnswer ==
    /\ InitState
    /\ op = "read_ip"
    /\ fault_budget = 0
    /\ url = NoUrl
    /\ max_retries = 0
    /\ plen = 0
    /\ body0 = <<>>
    /\ seglen = NoSegments
    /\ walk \in {WalkBegin([Question |-> TrackedDomain, Answer |-> a]) : a \in AnswerLists}
NextAnswer ==
    \/ WalkWhile
    \/ WalkFor
SpecAnswer == InitAnswer /\ [][NextAnswer]_vars

\* get_dns_ip called by two threads for TrackedDomain while the main thread
\* looks up other domains.
InitRace ==
    /\ InitLocals
    /\ op = "get_dns_ip"
    /\ fault_budget = 0
    /\ url = NoUrl
    /\ max_retries = 0
    /\ plen = 0
    /\ body0 = <<>>
    /\ seglen = NoSegments
NextRace ==
    \/ \E t \in Threads : RaceStart(t)
    \/ \E t \in Threads : RaceFinish(t)
    \/ \E t \in Threads : RaceFails(t)
    \/ \E t \in Threads : RaceHit(t)
    \/ RaceOther
SpecRace == InitRace /\ [][NextRace]_vars

\* ------------------------------------------------------------------ claims

Done == pc = "done"

\* The network has put no failure into the run: every request made so far
\* was answered with the whole body under its right length, every read
\* returned data.
WellServed == faults = 0 /\ \A i \in 1..Len(calls) : calls[i].kind = "ok"

\* The chunks chs, in order, carry exactly the bytes a..b-1 of one resource:
\* none missing, none twice, none out of order.
Contiguous(chs, a, b) ==
    IF Len(chs) = 0 THEN a = b
    ELSE /\ chs[1].lo = a
         /\ chs[Len(chs)].hi = b
         /\ \A i \in 1..Len(chs) : chs[i].lo < chs[i].hi
         /\ \A i \in 1..(Len(chs) - 1) : chs[i].hi = chs[i + 1].lo

\* The number of bytes in chs.
RECURSIVE BytesIn(_)
BytesIn(chs) ==
    IF chs = <<>> THEN 0 ELSE (Head(chs).hi - Head(chs).lo) + BytesIn(Tail(chs))

\* The first k bytes of the concatenation of chs, as chunks.
RECURSIVE TakeBytes(_, _)
TakeBytes(chs, k) ==
    IF k = 0 \/ chs = <<>> THEN <<>>
    ELSE IF Head(chs).hi - Head(chs).lo <= k
    THEN <<Head(chs)>> \o TakeBytes(Tail(chs), k - (Head(chs).hi - Head(chs).lo))
    ELSE <<[Head(chs) EXCEPT !.hi = Head(chs).lo + k]>>

AllTimedOut ==
    /\ calls # <<>>
    /\ \A i \in 1..Len(calls) : calls[i].kind = "URLError_timeout"

\* C1: when every attempt of stream(url, max_retries=R) fails with a timeout,
\* stream makes no more than R + 1 attempts and yields nothing, and it ends
\* only after exactly R + 1 attempts, raising MaxRetriesExceeded.
C1_RetryExhaustion ==
    (op = "stream" /\ AllTimedOut) =>
        /\ Len(calls) <= max_retries + 1
        /\ chunks = <<>>
        /\ Done => (Len(calls) = max_retries + 1 /\ result = "MaxRetriesExceeded")
        /\ (Len(calls) = max_retries + 1 /\ ~Done) => pc = "stream_try"

C1_Witness ==
    /\ op = "stream"
    /\ AllTimedOut
    /\ max_retries = 2
    /\ Len(calls) = 3
    /\ result = "MaxRetriesExceeded"

\* C2: a stream(url) from byte 0 that the network serves without failure
\* makes one request, yields chunks of 1..32768 bytes each, and when it has
\* returned the chunks carry the bytes 0..len(P)-1 in order, each once.
C2_ChunkReassembly ==
    (op = "stream" /\ run = 1 /\ start_byte_pos = 0 /\ WellServed) =>
        /\ \A i \in 1..Len(chunks) : chunks[i].hi - chunks[i].lo \in 1..chunk_read_size
        /\ Len(calls) <= 1
        /\ Done => /\ result = "returned"
                   /\ Len(calls) = 1
                   /\ Contiguous(chunks, 0, plen)

C2_Witness ==
    /\ op = "stream"
    /\ start_byte_pos = 0
    /\ WellServed
    /\ plen = 2 * chunk_read_size + 1
    /\ result = "returned"
    /\ Len(chunks) = 3

\* C3: after a stream(url) served without failure, a stream(url,
\* start_byte_pos=K) served without failure makes one request and yields
\* len(P) - K bytes, and the first K bytes of the first call followed by the
\* bytes of the second are the bytes 0..len(P)-1 in order, each once.
C3_ResumeRoundTrip ==
    (op = "stream" /\ run = 2 /\ WellServed /\ Done) =>
        /\ result = "returned"
        /\ Cardinality({i \in 1..Len(calls) : calls[i].run = 2}) = 1
        /\ BytesIn(chunks) = plen - start_byte_pos
        /\ Contiguous(TakeBytes(prev_chunks, start_byte_pos) \o chunks, 0, plen)

C3_Witness ==
    /\ op = "stream"
    /\ run = 2
    /\ WellServed
    /\ plen = 2 * chunk_read_size + 1
    /\ start_byte_pos = chunk_read_size + 1
    /\ result = "returned"
    /\ BytesIn(chunks) < start_byte_pos

\* A segment-0 body carries the marker 'Segment-Count: N' for the N in this
\* set.
MarkerValues(body) ==
    {SearchSegmentCount(SplitLines(body)[k]) : k \in 1..Len(SplitLines(body))} \ {-1}

SegmentLen(k) == IF k = 0 THEN Len(body0) ELSE seglen[k]
ChunksOf(chs, k) == SelectSeq(chs, LAMBDA c : c.sq = k)

RECURSIVE SumSegments(_)
SumSegments(n) == IF n = 0 THEN 0 ELSE seglen[n] + SumSegments(n - 1)
TotalSize(n) == Len(body0) + SumSegments(n)

\* C4: with one marker 'Segment-Count: N', N >= 1, in segment 0 and a network
\* without failure, seq_stream requests sq = 0, 1, 2, ... in this order, each
\* once and none above N; when it requests a segment, the chunks yielded so
\* far carry all of the segment before; chunks come in segment order; and when
\* it has returned it has requested 0..N and the chunks of each segment carry
\* that segment's body in order, each byte once.
C4_SegmentOrder ==
    \A n \in 1..MaxSegments :
        (op = "seq_stream" /\ MarkerValues(body0) = {n} /\ WellServed) =>
            /\ \A i \in 1..Len(calls) :
                   /\ SqOf(calls[i].url) = i - 1
                   /\ i - 1 <= n
                   /\ calls[i].method = "GET"
            /\ \A i \in 2..Len(calls) :
                   Contiguous(ChunksOf(SubSeq(chunks, 1, calls[i].at), i - 2),
                              0, SegmentLen(i - 2))
            /\ \A j \in 1..(Len(chunks) - 1) : chunks[j].sq <= chunks[j + 1].sq
            /\ Done => /\ result = "returned"
                       /\ Len(calls) = n + 1
                       /\ \A k \in 0..n : Contiguous(ChunksOf(chunks, k), 0, SegmentLen(k))

C4_Witness ==
    /\ op = "seq_stream"
    /\ MarkerValues(body0) = {3}
    /\ WellServed
    /\ seglen[2] = chunk_read_size + 1
    /\ result = "returned"
    /\ Len(calls) = 4
    /\ Len(ChunksOf(chunks, 2)) = 2

\* C5: with one marker 'Segment-Count: N', N >= 1, in segment 0 and a network
\* without failure (each HEAD response reports the length of its segment),
\* seq_filesize returns len(body(0)) + len(body(1)) + ... + len(body(N)), and
\* seq_stream has yielded that many bytes when it returns.
C5_SeqFilesize ==
    \A n \in 1..MaxSegments :
        (MarkerValues(body0) = {n} /\ WellServed /\ Done) =>
            /\ op = "seq_filesize" => (result = "returned" /\ retval = TotalSize(n))
            /\ op = "seq_stream" => (result = "returned" /\ BytesIn(chunks) = TotalSize(n))

C5_Witness ==
    /\ op = "seq_filesize"
    /\ MarkerValues(body0) = {3}
    /\ WellServed
    /\ seglen[2] = chunk_read_size + 1
    /\ result = "returned"
    /\ retval = TotalSize(3)
    /\ Len(calls) = 4

\* The URL the operation hands to its first _execute_request.
FirstRequestUrl ==
    IF op = "stream" THEN RangedUrl(url, start_byte_pos)
    ELSE IF op \in {"seq_stream", "seq_filesize"} THEN SeqUrl(url, 0)
    ELSE url

\* C6: when the URL to be requested does not start with 'http' in any case
\* of letters, the operation makes one call of _execute_request, which raises
\* ValueError('Invalid URL') without any urlopen; stream counts no try,
\* repeats nothing and yields nothing.
C6_InvalidUrl ==
    ~StartsWith(Lower(FirstRequestUrl), HttpPrefix) =>
        /\ \A i \in 1..Len(calls) : ~calls[i].urlopen
        /\ Len(calls) <= 1
        /\ tries = 0
        /\ chunks = <<>>
        /\ Len(calls) = 1 <=> Done
        /\ Done => result = "ValueError_InvalidURL"
        /\ (pc # "call" /\ op \notin {"stream", "seq_stream"}) => Done

C6_Witness ==
    /\ op = "stream"
    /\ url = UrlBad
    /\ max_retries = 2
    /\ Len(calls) = 1
    /\ ~calls[1].urlopen
    /\ result = "ValueError_InvalidURL"

\* C7: in stream, a request that fails with a URLError that is no timeout, or
\* with an HTTPError, is the last request of the run, and that error is what
\* stream raises.
C7_OtherErrorsPropagate ==
    op = "stream" =>
        \A i \in 1..Len(calls) :
            calls[i].kind \in {"URLError", "HTTPError"} =>
                /\ i = Len(calls)
                /\ Done
                /\ result = calls[i].kind

C7_Witness ==
    /\ op = "stream"
    /\ max_retries = 2
    /\ Len(calls) = 3
    /\ calls[1].kind = "URLError_timeout"
    /\ calls[2].kind = "IncompleteRead"
    /\ calls[3].kind = "HTTPError"
    /\ result = "HTTPError"

\* C8: in stream, no timeout and no incomplete read reaches the caller as a
\* raw socket.timeout or IncompleteRead, wherever it occurs.
C8_TransientNeverRaw ==
    op = "stream" => result \notin {"socket.timeout", "IncompleteRead"}

OnlyTruncations ==
    \A i \in 1..Len(calls) :
        /\ calls[i].kind = "ok"
        /\ calls[i].cl = "right"
        /\ calls[i].cut # -1 => i < Len(calls)

\* C10: in stream, the request after a response that broke off asks for the
\* bytes from start_byte_pos plus the number of bytes yielded so far, and a
\* run whose only failures are such responses has, when it returns, yielded
\* the bytes start_byte_pos..len(P)-1 in order, each once.
C10_ResumeAtFailure ==
    op = "stream" =>
        /\ \A i \in 2..Len(calls) :
               (calls[i - 1].kind = "ok" /\ calls[i - 1].cut # -1) =>
                   RangeStartOf(calls[i].arg)
                       = start_byte_pos + BytesIn(SubSeq(chunks, 1, calls[i].at))
        /\ (Done /\ result = "returned" /\ OnlyTruncations) =>
               Contiguous(chunks, start_byte_pos, plen)

\* C11: when no line of segment 0's body carries a marker and the network
\* puts in no failure, seq_stream yields the chunks of segment 0, requests
\* no other segment and returns without an error, and seq_filesize raises
\* RegexMatchError.
C11_NoMarkerPassThrough ==
    (MarkerValues(body0) = {} /\ WellServed /\ Done) =>
        /\ op = "seq_stream" =>
               /\ result = "returned"
               /\ Len(calls) = 1
               /\ Contiguous(chunks, 0, Len(body0))
        /\ op = "seq_filesize" => result = "RegexMatchError"

\* C12: with a network without failure, seq_filesize raises RegexMatchError
\* exactly when no line of segment 0's body carries a marker: with a marker
\* 'Segment-Count: N', N >= 0, it returns a size; and when it raises
\* RegexMatchError it has made no HEAD request.
C12_RegexErrorIffNoMarker ==
    (op = "seq_filesize" /\ WellServed /\ Done) =>
        /\ result = "RegexMatchError" <=> MarkerValues(body0) = {}
        /\ MarkerValues(body0) # {} => result = "returned"
        /\ result = "RegexMatchError" =>
               \A i \in 1..Len(calls) : calls[i].method # "HEAD"

\* Call i is the first request of the run that was answered.
FirstAnswered(i) ==
    /\ i \in 1..Len(calls)
    /\ calls[i].kind = "ok"
    /\ \A j \in 1..(i - 1) : calls[j].kind # "ok"

\* C13: when the first response of stream has no Content-Length or one that
\* is no number, and no read of the body fails, file_size stays the sentinel,
\* no request follows that response, and stream returns having yielded the
\* body once: the bytes start_byte_pos..len(P)-1 in order, none twice.
C13_SentinelEndsWithBody ==
    \A i \in 1..Len(calls) :
        (/\ op = "stream"
         /\ FirstAnswered(i)
         /\ calls[i].cl \in {"absent", "malformed"}
         /\ result \notin {"socket.timeout", "IncompleteRead"}) =>
            /\ i = Len(calls)
            /\ file_size = default_range_size
            /\ result \in {"running", "returned"}
            /\ Done => Contiguous(chunks, start_byte_pos, plen)

\* C14: stream ends, because each pass of the outer loop brings downloaded
\* nearer to file_size: when a response body is exhausted and the outer loop
\* goes on, the response has yielded at least one chunk.  (A pass that yields
\* nothing leaves file_size, downloaded and the URL as they were, and the
\* same answer repeats it without end.)
C14_OuterLoopProgress ==
    (op = "stream" /\ pc = "stream_loop" /\ calls # <<>> /\ downloaded < file_size) =>
        Len(chunks) > calls[Len(calls)].at

\* Thread t is inside a call of the hook.
InHook(t) == \E i \in 1..Len(stack[t]) : stack[t][i].fn = "hook"

\* C15: the hook leaves last_url as it is: for every thread that is not
\* inside a call of the hook, last_url[thread] is the URL of the thread's
\* latest _execute_request (none when it made no request), after a cache
\* hit as after a cache miss.
C15_HookLeavesContext ==
    \A t \in Threads : ~InHook(t) => last_url[t] = req_url[t]

\* C16: a resolution of a host that is neither the resolver's nor of the
\* media family returns the platform's result as it is, whatever the thread
\* requested before and whether or not the transport asked for it.
C16_OtherHostUnmodified ==
    (hook_last.thread # 0 /\ hook_last.host = OtherHost) =>
        /\ hook_last.addr = PlatformAddr(OtherHost)
        /\ hook_last.port = PlatformPort

\* C17: under every interleaving of the threads, last_url holds for each
\* thread one URL, the one that thread recorded latest itself, and the hook
\* answers by the rule of the URL it read there: the platform's result, the
\* fronting address, or the address get_dns_ip gave.
C17_ThreadIsolation ==
    /\ DOMAIN last_url = Threads
    /\ \A t \in Threads : last_url[t] = own_url[t]
    /\ hook_last.thread # 0 =>
           /\ hook_last.rule = Classify(hook_last.url)
           /\ hook_last.rule = "pass" => hook_last.addr = PlatformAddr(hook_last.host)
           /\ hook_last.rule = "probe" => hook_last.addr = FrontAddr
           /\ hook_last.rule = "media" => hook_last.addr \in {DnsAddr(AddrA), DnsAddr(AddrB)}

C17_Witness ==
    /\ hook_last.thread = 1
    /\ hook_last.rule = "media"
    /\ hook_last.lookup
    /\ HasTop(1, "request")
    /\ HasTop(2, "request")
    /\ last_url[2] = UrlPlain

\* C18: when the URL the hook reads contains '/resolve', also when it names
\* a domain of the media family, the hook returns the fronting address and
\* port 443 and starts no lookup; no thread is ever inside more than one
\* call of get_dns_ip.
C18_ProbeGetsFrontAddress ==
    /\ (hook_last.thread # 0 /\ Contains(hook_last.url, ResolvePath)) =>
           /\ hook_last.rule = "probe"
           /\ hook_last.addr = FrontAddr
           /\ hook_last.port = FrontPort
           /\ ~hook_last.lookup
    /\ \A t \in Threads : DnsDepth(t) <= 1

C18_Witness ==
    /\ hook_last.thread # 0
    /\ hook_last.nested
    /\ hook_last.host = FrontHost
    /\ hook_last.url = ResolveUrl(TrackedDomain)
    /\ Contains(hook_last.url, MediaFamily)
    /\ hook_last.addr = FrontAddr
    /\ DnsDepth(hook_last.thread) = 1

\* C19: _read_ip_from_dns_answer returns for every answer list, cyclic ones
\* and entries that name themselves included, and what it returns is the name
\* of no entry.  The passes depend on ip alone, so the loop ends exactly when
\* no pass begins with a value of ip an earlier pass began with.
C19_WalkReturnsFixpoint ==
    /\ ~walk.again
    /\ walk.pc = "returned" =>
           \A i \in 1..Len(walk.answers) : walk.answers[i].name # walk.ip

\* The address the cache holds for TrackedDomain; NoAddr when it holds none.
CachedAddr ==
    IF LruIndex(dns_cache, TrackedDomain) = 0 THEN NoAddr
    ELSE dns_cache[LruIndex(dns_cache, TrackedDomain)].addr

====
